---- MODULE Spec2Model ----
(***************************************************************************)
(* A model of the geospatial inverted-index benchmark (main.go and the     *)
(* query file, the second half of unnamed/part_001): the covering policy,  *)
(* the ancestor enumeration, the translation of contains / containing /    *)
(* intersects into range and exact-match predicates over cell tokens, and  *)
(* the benchmark loop with its cancellation.                               *)
(*                                                                         *)
(* Cell identifiers are S2 cell ids with the library's bit layout, scaled  *)
(* from 30 levels to MaxLevel levels: 3 face bits, 2 bits per level, then  *)
(* a single 1 bit and zeros.                                               *)
(***************************************************************************)
EXTENDS Integers, Sequences, FiniteSets, TLC

VARIABLES
    \* ancestorCells applied to an input list
    cells, ancestors, ancPc,
    \* s2IndexConfig.Covering applied to a region
    covMaxCells, covRc, region, covering, covPc,
    \* one query (ReadS2 or ReadSST) against an index holding one posting
    posting, qOp, queryCoveringCounts, query, qRet, qPc,
    \* the sstable ReadSST reads, the state of the iterator of the last
    \* ReadSST, and the entries its scan visited, in order
    sstEntries, iter, scanned,
    \* the benchmark loop (latencies / sstlatencies)
    bench, pc, i, level, nanosByLevel, countsByLevel, rowsByLevel, ctxErr,
    signalled, listener, keep, pos, issued, numLoops, ret, lastErr, atCancel,
    \* convert: the records of the road file, the lines written to the index
    \* file and to the table file, the loop's counter, the returned error
    roads, indexW, tableW, convI, convRet, convPc,
    \* sstLoad: the postings passed to the sstable writer, in order, and the
    \* returned error
    loadSets, loadRet,
    \* query readers made one after the other over the road file: the
    \* selectivity, the numbers the generator seeded with 0 yields, the
    \* reader in use, the samples each reader returned, the number of the
    \* reader in use and the numbers drawn so far by all readers
    selectivity, source0, qr, kept, pass, drawn

ancVars   == <<cells, ancestors, ancPc>>
covVars   == <<covMaxCells, covRc, region, covering, covPc>>
queryVars == <<posting, qOp, queryCoveringCounts, query, qRet, qPc, sstEntries,
               iter, scanned>>
benchVars == <<bench, pc, i, level, nanosByLevel, countsByLevel, rowsByLevel,
               ctxErr, signalled, listener, keep, pos, issued, numLoops, ret,
               lastErr, atCancel>>
convVars  == <<roads, indexW, tableW, convI, convRet, convPc, loadSets,
               loadRet>>
sampVars  == <<selectivity, source0, qr, kept, pass, drawn>>
vars      == <<ancVars, covVars, queryVars, benchVars, convVars, sampVars>>

----------------------------------------------------------------------------
(* Bounds of the model *)

\* levels of the cell hierarchy below the face cells (30 in the s2 library)
MaxLevel == 3
\* longest list of cells given to ancestorCells or used as a query covering
MaxCovLen == 2
\* largest configured cfg.maxCells
MaxCfgCells == 2
\* largest object id of an indexed posting
MaxId == 1
\* records of the road file read by the query reader
StreamLen == 4
\* the levels queried (8 .. 20 in the program), scaled into the hierarchy
queryMinLevel == 1
queryMaxLevel == 2
\* queries recorded per level in one pass (100 in the program)
QueriesPerLevel == 1
\* entries of the sstable read by ReadSST
MaxSstLen == 3
\* object ids of the sstable's entries: 1 .. MaxObjId, and one id whose
\* varint takes two bytes
MaxObjId == 2
LargeId == 300
\* records of the road file read by convert
MaxRoads == 3
\* the most roads convert indexes (1000000 in the program)
convertRows == 2

(* Program constants *)

\* "a sphere ... is divided into 6 30-level quadtrees"
NumFaces == 6
\* var queryCoveringCounts [20]int64
QueryCoveringCountsLen == 20
\* binary.MaxVarintLen64
MaxVarintLen64 == 10
\* sstlatencies: if numLoops < 20 { goto ForLoop }
MaxLoops == 20

----------------------------------------------------------------------------
(* s2.CellID: the operations of the library the program calls *)

PosBits == 2 * MaxLevel
IdBits  == 3 + PosBits + 1

\* the lowest set bit of a cell id at the given level
lsbForLevel(l) == 2 ^ (2 * (MaxLevel - l))

RECURSIVE Lsb(_)
Lsb(id) == IF id % 2 = 1 THEN 1 ELSE 2 * Lsb(id \div 2)

\* c.Level()
Level(id) == CHOOSE l \in 0..MaxLevel : lsbForLevel(l) = Lsb(id)

\* c.Parent(l): (id & -lsb) | lsb, with lsb the lowest set bit of level l
Parent(id, l) ==
    LET n == lsbForLevel(l) IN (id \div (2 * n)) * (2 * n) + n

\* c.RangeMin(), c.RangeMax(): the first and the last leaf cell below c
RangeMin(id) == id - (Lsb(id) - 1)
RangeMax(id) == id + (Lsb(id) - 1)

\* c.Face()
Face(id) == id \div 2 ^ (PosBits + 1)

\* the face cell (level 0) of a face, and the k-th child of a cell
FaceCell(f) == f * 2 ^ (PosBits + 1) + 2 ^ PosBits
Child(id, k) == (id - Lsb(id)) + (2 * k + 1) * (Lsb(id) \div 4)

\* every valid cell id of the scaled hierarchy
AllCells ==
    { f * 2 ^ (PosBits + 1) + (2 * p + 1) * lsbForLevel(l) :
        f \in 0..(NumFaces - 1), l \in 0..MaxLevel, p \in 0..(4 ^ MaxLevel - 1) }
    \cap { id \in 1..(NumFaces * 2 ^ (PosBits + 1)) :
            Lsb(id) \in { lsbForLevel(l) : l \in 0..MaxLevel } }

\* c.ToToken(): the id as fixed-width hexadecimal (the id left-aligned in a
\* whole number of hex digits), trailing zeros removed; bytes as ASCII codes
TokenDigits == (IdBits + 3) \div 4
HexChar(d) == IF d < 10 THEN 48 + d ELSE 87 + d
HexDigit(id, k) ==
    ((id * 2 ^ (4 * TokenDigits - IdBits)) \div (16 ^ (TokenDigits - k))) % 16
ToToken(id) ==
    LET used == { k \in 1..TokenDigits : HexDigit(id, k) # 0 }
        n    == IF used = {} THEN 0
                ELSE CHOOSE k \in used : \A j \in used : j <= k
    IN  IF n = 0 THEN << 88 >>
        ELSE [ k \in 1..n |-> HexChar(HexDigit(id, k)) ]

\* bytes.Compare / strings.Compare / the SQL string order: lexicographic
RECURSIVE Compare(_, _)
Compare(a, b) ==
    IF a = << >> /\ b = << >> THEN 0
    ELSE IF a = << >> THEN -1
    ELSE IF b = << >> THEN 1
    ELSE IF Head(a) < Head(b) THEN -1
    ELSE IF Head(a) > Head(b) THEN 1
    ELSE Compare(Tail(a), Tail(b))

Range(s) == { s[k] : k \in DOMAIN s }

----------------------------------------------------------------------------
(* Inputs: the cells the checked lists and coverings are drawn from.  On   *)
(* face 0 the chain of first children from the face cell down to a leaf,   *)
(* with the sibling next to each cell of the chain; on the last face the   *)
(* face cell and one child.                                                *)

RECURSIVE Chain(_, _)
Chain(f, n) == IF n = 0 THEN FaceCell(f) ELSE Child(Chain(f, n - 1), 1)

SampleCells ==
    { Chain(0, n) : n \in 0..MaxLevel }
    \cup { Child(Chain(0, n), 2) : n \in 0..(MaxLevel - 1) }
    \cup { FaceCell(NumFaces - 1), Child(FaceCell(NumFaces - 1), 1) }

SeqsUpTo(S, n) == UNION { [1..k -> S] : k \in 0..n }

----------------------------------------------------------------------------
(* ancestorCells *)

\* the level the upward walk of a cell starts at: l := c.Level() - 1
walkStart_Self(c) == Level(c)
walkStart(c) == Level(c) - 1

\* the inner loop: for l ... ; l >= 0; l-- { a := c.Parent(l); if seen, break;
\* append; seen[a] }
RECURSIVE ancestorWalk_SkipRoot(_, _, _)
ancestorWalk_SkipRoot(c, l, st) ==
    IF l <= 0 THEN st
    ELSE LET a == Parent(c, l) IN
         IF a \in st.seen THEN st
         ELSE ancestorWalk_SkipRoot(c, l - 1,
                  [ancestors |-> Append(st.ancestors, a),
                   seen      |-> st.seen \cup {a}])

RECURSIVE ancestorWalk(_, _, _)
ancestorWalk(c, l, st) ==
    IF l < 0 THEN st
    ELSE LET a == Parent(c, l) IN
         IF a \in st.seen THEN st
         ELSE ancestorWalk(c, l - 1,
                  [ancestors |-> Append(st.ancestors, a),
                   seen      |-> st.seen \cup {a}])

\* the outer loop: for _, c := range cells
RECURSIVE ancestorLoop_MarkInput(_, _, _)
ancestorLoop_MarkInput(cs, k, st) ==
    IF k > Len(cs) THEN st
    ELSE LET w == ancestorWalk(cs[k], walkStart(cs[k]), st) IN
         ancestorLoop_MarkInput(cs, k + 1,
             [ancestors |-> w.ancestors, seen |-> w.seen \cup {cs[k]}])

RECURSIVE ancestorLoop(_, _, _)
ancestorLoop(cs, k, st) ==
    IF k > Len(cs) THEN st
    ELSE ancestorLoop(cs, k + 1, ancestorWalk(cs[k], walkStart(cs[k]), st))

ancestorCells(cs) ==
    ancestorLoop(cs, 1, [ancestors |-> << >>, seen |-> {}]).ancestors

----------------------------------------------------------------------------
(* s2IndexConfig.Covering *)

\* a Go slice of cells: nil, or a (possibly empty) list
NilSlice == [nil |-> TRUE, cells |-> << >>]
Slice(s) == [nil |-> FALSE, cells |-> s]

NoDuplicates(s) == \A j, k \in DOMAIN s : s[j] = s[k] => j = k

\* the parent of c at each level 0 .. Level(c) - 1
StrictAncestors(c) == { Parent(c, l) : l \in 0..(Level(c) - 1) }

\* no member of the list is a strict ancestor of another member
NoMemberAboveAnother(cs) ==
    \A j, k \in DOMAIN cs : cs[j] \notin StrictAncestors(cs[k])

\* what c.rc.Covering(r) may return for a region that is not empty: one or
\* more cells, no cell twice, no cell inside another.  The number of cells
\* is not held to MaxCells (a region over several faces needs one per face).
CovererResults ==
    { s \in SeqsUpTo(SampleCells, MaxCovLen + 1) :
        Len(s) >= 1 /\ NoDuplicates(s) /\ NoMemberAboveAnother(s) }

\* a region: an s2.Cell, or another shape with the covering the external
\* coverer computes for it
Regions ==
    { [isCell |-> TRUE, id |-> c, ext |-> << >>] : c \in SampleCells }
    \cup { [isCell |-> FALSE, id |-> 0, ext |-> s] : s \in CovererResults }

\* if c.rc == nil { c.rc = &s2.RegionCoverer{...MaxCells: c.maxCells} }
NoRc == [built |-> FALSE, MaxCells |-> 0]
BuildRc(maxCells, rc) ==
    IF ~rc.built THEN [built |-> TRUE, MaxCells |-> maxCells] ELSE rc

Covering_NoReject(maxCells, r) ==
    IF r.isCell THEN Slice(<< r.id >>) ELSE Slice(r.ext)

\* a Covering that cuts the coverer's result down to maxCells cells
Covering_FirstMaxCells(maxCells, r) ==
    IF r.isCell THEN Slice(<< r.id >>)
    ELSE IF maxCells = 1 /\ Len(r.ext) # 1 THEN NilSlice
    ELSE IF Len(r.ext) > maxCells THEN Slice(SubSeq(r.ext, 1, maxCells))
    ELSE Slice(r.ext)

Covering(maxCells, r) ==
    IF r.isCell THEN Slice(<< r.id >>)
    ELSE LET cov == Slice(r.ext) IN
         IF maxCells = 1 /\ Len(cov.cells) # 1 THEN NilSlice ELSE cov


----------------------------------------------------------------------------
(* The index: convert writes one line (id, token) per covering cell;        *)
(* the relational table roads_s2_idx holds these lines as rows with         *)
(* PRIMARY KEY (s2, id); sstLoad writes each as key = token,                *)
(* value = uvarint(id).                                                    *)

\* binary.PutUvarint: 7 bits per byte, low bits first, high bit = more
RECURSIVE PutUvarint(_)
PutUvarint(x) ==
    IF x < 128 THEN << x >>
    ELSE << (x % 128) + 128 >> \o PutUvarint(x \div 128)

\* binary.Uvarint: the value and the number of bytes read; n = 0 when the
\* buffer ends inside the number, n < 0 on overflow
RECURSIVE UvarintFrom(_, _, _, _)
UvarintFrom(buf, k, x, sh) ==
    IF k > Len(buf) THEN [value |-> 0, n |-> 0]
    ELSE IF k - 1 = MaxVarintLen64 THEN [value |-> 0, n |-> -k]
    ELSE IF buf[k] < 128
         THEN IF k = MaxVarintLen64 /\ buf[k] > 1
              THEN [value |-> 0, n |-> -k]
              ELSE [value |-> x + buf[k] * 2 ^ sh, n |-> k]
    ELSE UvarintFrom(buf, k + 1, x + (buf[k] - 128) * 2 ^ sh, sh + 7)

Uvarint(buf) == UvarintFrom(buf, 1, 0, 0)

\* fmt.Fprintf(indexW, "%d,%s\n", road.idx, c.ToToken())
IndexRow(id, c) == [id |-> id, s2 |-> ToToken(c)]

\* w.Set([]byte(index[i].cellid), buf[:n]) with n = PutUvarint(buf, id)
SstEntry(row) == [key |-> row.s2, value |-> PutUvarint(row.id)]

----------------------------------------------------------------------------
(* The query translation *)

Ops == {"contains", "containing", "intersects"}

\* containsQ: one  s2 BETWEEN 'RangeMin token' AND 'RangeMax token'  per
\* cell, joined by OR.  A WHERE clause is the list of its disjuncts.
containsQ_UpToCell(w, cs) ==
    w \o [ k \in DOMAIN cs |->
            [kind |-> "between",
             lo   |-> ToToken(RangeMin(cs[k])),
             hi   |-> ToToken(cs[k])] ]

containsQ(w, cs) ==
    w \o [ k \in DOMAIN cs |->
            [kind |-> "between",
             lo   |-> ToToken(RangeMin(cs[k])),
             hi   |-> ToToken(RangeMax(cs[k]))] ]

\* containingQ: s2 IN ('token', ...)
containingQ(w, cs) ==
    Append(w, [kind |-> "in", tokens |-> [ k \in DOMAIN cs |-> ToToken(cs[k]) ]])

\* the switch on q.op in ReadS2
WhereClause_ContainingAncestorsOnly(op, cov) ==
    CASE op = "contains"   -> containsQ(<< >>, cov)
      [] op = "containing" -> containingQ(<< >>, ancestorCells(cov))
      [] op = "intersects" -> containingQ(containsQ(<< >>, cov), ancestorCells(cov))

WhereClause_IntersectsNoAncestors(op, cov) ==
    CASE op = "contains"   -> containsQ(<< >>, cov)
      [] op = "containing" -> containingQ(<< >>, ancestorCells(cov) \o cov)
      [] op = "intersects" -> containsQ(<< >>, cov)

WhereClause(op, cov) ==
    CASE op = "contains"   -> containsQ(<< >>, cov)
      [] op = "containing" -> containingQ(<< >>, ancestorCells(cov) \o cov)
      [] op = "intersects" -> containingQ(containsQ(<< >>, cov), ancestorCells(cov))

\* the database's evaluation of the WHERE clause on one row
RowMatches(row, w) ==
    \E k \in DOMAIN w :
        IF w[k].kind = "between"
        THEN Compare(w[k].lo, row.s2) <= 0 /\ Compare(row.s2, w[k].hi) <= 0
        ELSE row.s2 \in Range(w[k].tokens)

\* SELECT count(id) / count(distinct(id)) FROM roads_s2_idx WHERE w
SelectCount(distinct, w, rows) ==
    LET hit == { r \in rows : RowMatches(r, w) } IN
    IF distinct THEN Cardinality({ r.id : r \in hit }) ELSE Cardinality(hit)

\* q.GetCovering: the covering of the query's region and the tally of its
\* length; panics when the length is above the tally's size, and on an
\* index outside the tally
GetCovering(maxCells, r, counts) ==
    LET cov == Covering(maxCells, r)
        n   == Len(cov.cells)
    IN  IF n > QueryCoveringCountsLen
        THEN [covering |-> cov, counts |-> counts, panic |-> "covering too long"]
        ELSE IF n + 1 \notin DOMAIN counts
        THEN [covering |-> cov, counts |-> counts, panic |-> "index out of range"]
        ELSE [covering |-> cov,
              counts   |-> [counts EXCEPT ![n + 1] = @ + 1],
              panic    |-> "none"]

\* if cfg.maxCells == 1 { count(id) } else { count(distinct(id)) }
CountExpr_UpToTwo(maxCells) ==
    IF maxCells <= 2 THEN "count(id)" ELSE "count(distinct(id))"

CountExpr(maxCells) ==
    IF maxCells = 1 THEN "count(id)" ELSE "count(distinct(id))"

\* q.ReadS2
ReadS2(rows, maxCells, r, op, counts, dbErr) ==
    LET g == GetCovering(maxCells, r, counts) IN
    IF g.panic # "none"
    THEN [count |-> 0, rowCount |-> 0, err |-> "panic", counts |-> g.counts, query |-> << >>,
          iter |-> "none", scanned |-> << >>, agg |-> "none"]
    ELSE IF g.covering.nil
    THEN [count |-> 0, rowCount |-> 0, err |-> "skipped", counts |-> g.counts, query |-> << >>,
          iter |-> "none", scanned |-> << >>, agg |-> "none"]
    ELSE LET w == WhereClause(op, g.covering.cells) IN
         IF dbErr
         THEN [count |-> 0, rowCount |-> 0, err |-> "error", counts |-> g.counts, query |-> w,
               iter |-> "none", scanned |-> << >>, agg |-> CountExpr(maxCells)]
         ELSE [count    |-> SelectCount(CountExpr(maxCells) = "count(distinct(id))", w, rows),
               rowCount |-> 0,
               err      |-> "nil",
               counts   |-> g.counts,
               query    |-> w,
               iter     |-> "none",
               scanned  |-> << >>,
               agg      |-> CountExpr(maxCells)]

SeekGE_Above(sst, first) ==
    LET ge == { k \in DOMAIN sst : Compare(sst[k].key, first) > 0 } IN
    IF ge = {} THEN Len(sst) + 1 ELSE CHOOSE k \in ge : \A j \in ge : k <= j

\* iter.SeekGE(first): the first entry whose key is not below first
SeekGE(sst, first) ==
    LET ge == { k \in DOMAIN sst : Compare(sst[k].key, first) >= 0 } IN
    IF ge = {} THEN Len(sst) + 1 ELSE CHOOSE k \in ge : \A j \in ge : k <= j

\* the scan of one covering cell: for k, v = iter.SeekGE(first);
\* k != nil && bytes.Compare(k.UserKey, last) <= 0; k, v = iter.Next()
RECURSIVE ScanCell_NoUpperBound(_, _, _, _)
ScanCell_NoUpperBound(sst, k, last, st) ==
    IF st.panic \/ k > Len(sst) THEN st
    ELSE LET d == Uvarint(sst[k].value) IN
         IF d.n <= 0 THEN [st EXCEPT !.panic = TRUE, !.scanned = Append(@, k)]
         ELSE ScanCell_NoUpperBound(sst, k + 1, last,
                  [st EXCEPT !.idMap = @ \cup {d.value}, !.rowCount = @ + 1,
                             !.scanned = Append(@, k)])

RECURSIVE ScanCell_CountNewIds(_, _, _, _)
ScanCell_CountNewIds(t, k, last, st) ==
    IF st.panic \/ k > Len(t) \/ Compare(t[k].key, last) > 0 THEN st
    ELSE LET d == Uvarint(t[k].value) IN
         IF d.n <= 0 THEN [st EXCEPT !.panic = TRUE, !.scanned = Append(@, k)]
         ELSE ScanCell_CountNewIds(t, k + 1, last,
                  [st EXCEPT !.idMap = @ \cup {d.value},
                             !.rowCount = IF d.value \in st.idMap THEN @ ELSE @ + 1,
                             !.scanned = Append(@, k)])

RECURSIVE ScanCell_SkipMalformed(_, _, _, _)
ScanCell_SkipMalformed(t, k, last, st) ==
    IF st.panic \/ k > Len(t) \/ Compare(t[k].key, last) > 0 THEN st
    ELSE LET d == Uvarint(t[k].value) IN
         IF d.n <= 0
         THEN ScanCell_SkipMalformed(t, k + 1, last,
                  [st EXCEPT !.scanned = Append(@, k)])
         ELSE ScanCell_SkipMalformed(t, k + 1, last,
                  [st EXCEPT !.idMap = @ \cup {d.value}, !.rowCount = @ + 1,
                             !.scanned = Append(@, k)])

RECURSIVE ScanCell(_, _, _, _)
ScanCell(sst, k, last, st) ==
    IF st.panic \/ k > Len(sst) \/ Compare(sst[k].key, last) > 0 THEN st
    ELSE LET d == Uvarint(sst[k].value) IN
         IF d.n <= 0 THEN [st EXCEPT !.panic = TRUE, !.scanned = Append(@, k)]
         ELSE ScanCell(sst, k + 1, last,
                  [st EXCEPT !.idMap = @ \cup {d.value}, !.rowCount = @ + 1,
                             !.scanned = Append(@, k)])

\* for _, c := range covering
RECURSIVE ScanCovering(_, _, _, _)
ScanCovering(sst, cov, j, st) ==
    IF st.panic \/ j > Len(cov) THEN st
    ELSE LET first == ToToken(RangeMin(cov[j]))
             last  == ToToken(RangeMax(cov[j]))
         IN  ScanCovering(sst, cov, j + 1,
                 ScanCell(sst, SeekGE(sst, first), last, st))

\* q.ReadSST
ReadSST(t, maxCells, r, op, counts, closeErr) ==
    LET g == GetCovering(maxCells, r, counts)
        Fail(e, it, sc) == [count |-> 0, rowCount |-> 0, err |-> e,
                            counts |-> g.counts, query |-> << >>,
                            iter |-> it, scanned |-> sc, agg |-> "none"]
    IN
    IF g.panic # "none" THEN Fail("panic", "none", << >>)
    ELSE IF g.covering.nil THEN Fail("skipped", "none", << >>)
    ELSE IF op # "contains" THEN Fail("panic", "none", << >>)
    ELSE LET st == ScanCovering(t, g.covering.cells, 1,
                       [idMap |-> {}, rowCount |-> 0, panic |-> FALSE,
                        scanned |-> << >>])
         IN  IF st.panic THEN Fail("panic", "open", st.scanned)
             ELSE IF closeErr THEN Fail("error", "closed", st.scanned)
             ELSE [count    |-> Cardinality(st.idMap),
                   rowCount |-> st.rowCount,
                   err      |-> "nil",
                   counts   |-> g.counts,
                   query    |-> << >>,
                   iter     |-> "closed",
                   scanned  |-> st.scanned,
                   agg      |-> "none"]

----------------------------------------------------------------------------
(* Values of the variables of a part of the program that is not running *)

IdleAnc ==
    /\ cells = << >>
    /\ ancestors = << >>
    /\ ancPc = "idle"

IdleCov ==
    /\ covMaxCells = 0
    /\ covRc = NoRc
    /\ region = << >>
    /\ covering = << >>
    /\ covPc = "idle"

IdleQuery ==
    /\ posting = << >>
    /\ qOp = "none"
    /\ queryCoveringCounts = << >>
    /\ query = << >>
    /\ qRet = << >>
    /\ qPc = "idle"
    /\ sstEntries = << >>
    /\ iter = "none"
    /\ scanned = << >>

IdleConv ==
    /\ roads = << >>
    /\ indexW = << >>
    /\ tableW = << >>
    /\ convI = 0
    /\ convRet = "none"
    /\ convPc = "idle"
    /\ loadSets = << >>
    /\ loadRet = "none"

IdleSamp ==
    /\ selectivity = 0
    /\ source0 = << >>
    /\ qr = << >>
    /\ kept = << >>
    /\ pass = 0
    /\ drawn = 0

IdleBench ==
    /\ bench = "none"
    /\ pc = "idle"
    /\ i = 0
    /\ level = 0
    /\ nanosByLevel = << >>
    /\ countsByLevel = << >>
    /\ rowsByLevel = << >>
    /\ ctxErr = FALSE
    /\ signalled = FALSE
    /\ listener = "none"
    /\ keep = {}
    /\ pos = 0
    /\ issued = 0
    /\ numLoops = 0
    /\ ret = "none"
    /\ lastErr = "none"
    /\ atCancel = << >>

----------------------------------------------------------------------------
(* SpecAnc: ancestorCells called on a list of cells *)

InitAnc ==
    /\ cells \in SeqsUpTo(SampleCells, MaxCovLen + 1)
    /\ ancestors = << >>
    /\ ancPc = "call"
    /\ IdleCov /\ IdleQuery /\ IdleBench /\ IdleConv
    /\ IdleSamp

AncestorCellsCall ==
    /\ ancPc = "call"
    /\ ancestors' = ancestorCells(cells)
    /\ ancPc' = "returned"
    /\ UNCHANGED <<cells, covVars, queryVars, benchVars, convVars, sampVars>>

NextAnc == AncestorCellsCall

SpecAnc == InitAnc /\ [][NextAnc]_vars

----------------------------------------------------------------------------
(* Claims about ancestorCells *)

\* C4: the result of ancestorCells holds every strict ancestor of every
\* member of the input exactly once and nothing else; stopping a walk at an
\* already seen parent drops no ancestor.
C4_AncestorsExact ==
    ancPc = "returned" =>
        /\ Range(ancestors) = UNION { StrictAncestors(cells[k]) : k \in DOMAIN cells }
        /\ NoDuplicates(ancestors)

\* a walk was cut short at a seen parent: two members share an ancestor
C4_Witness ==
    /\ ancPc = "returned"
    /\ Len(cells) >= 2
    /\ \E j, k \in DOMAIN cells :
          /\ j < k
          /\ cells[j] # cells[k]
          /\ StrictAncestors(cells[j]) \cap StrictAncestors(cells[k]) # {}
          /\ StrictAncestors(cells[k]) \ StrictAncestors(cells[j]) # {}

\* C5 as stated: for any input list, the result contains no element of it.
C5_Original ==
    ancPc = "returned" => Range(ancestors) \cap Range(cells) = {}

\* C5 as amended: when no member of the input is a strict ancestor of
\* another member, the result of ancestorCells contains no element of the
\* input.
C5_NoInputCellWhenUnnested ==
    (ancPc = "returned" /\ NoMemberAboveAnother(cells)) =>
        Range(ancestors) \cap Range(cells) = {}

C5_Witness ==
    /\ ancPc = "returned"
    /\ Len(cells) >= 2
    /\ NoMemberAboveAnother(cells)
    /\ ancestors # << >>
    /\ \E j, k \in DOMAIN cells : cells[j] # cells[k]

\* the lists that are permutations of cs
PermutationsOf(cs) ==
    { [k \in DOMAIN cs |-> cs[f[k]]] : f \in Permutations(DOMAIN cs) }

\* C6: ancestorCells returns the same set of cells for every permutation of
\* its input list; only the order of the result may differ.
C6_OrderIndependent ==
    ancPc = "returned" =>
        \A p \in PermutationsOf(cells) :
            Range(ancestorCells(p)) = Range(ancestors)

\* two orders of one input that give the same set in a different enumeration
C6_Witness ==
    /\ ancPc = "returned"
    /\ \E p \in PermutationsOf(cells) :
          /\ p # cells
          /\ ancestorCells(p) # ancestors
          /\ Range(ancestorCells(p)) = Range(ancestors)

----------------------------------------------------------------------------
(* SpecCov: s2IndexConfig.Covering called on a region *)

\* MaxCells is a soft limit of the coverer: it returns more cells only for
\* a region on a cube edge or corner, one cell for each face the region
\* touches ("We covered a cube edge or corner and couldn't do 1 cell")
CovererCanReturn(maxCells, s) ==
    \/ Len(s) <= maxCells
    \/ \A j, k \in DOMAIN s : j # k => Face(s[j]) # Face(s[k])

\* regions on a cube edge or corner: the coverer's result has a cell on
\* each of two or three faces
CornerRegions ==
    { [isCell |-> FALSE, id |-> 0, ext |-> s] :
        s \in { x \in SeqsUpTo({ Chain(0, 1), FaceCell(1), FaceCell(2) },
                               MaxCovLen + 1) :
                  Len(x) >= 2 /\ \A j, k \in DOMAIN x : j < k => x[j] < x[k] } }

InitCov ==
    /\ covMaxCells \in 1..MaxCfgCells
    /\ covRc = NoRc
    /\ region \in { r \in Regions \cup CornerRegions :
                      r.isCell \/ CovererCanReturn(covMaxCells, r.ext) }
    /\ covering = NilSlice
    /\ covPc = "call"
    /\ IdleAnc /\ IdleQuery /\ IdleBench /\ IdleConv
    /\ IdleSamp

CoveringCall ==
    /\ covPc = "call"
    /\ covering' = Covering(covMaxCells, region)
    /\ covRc' = IF region.isCell THEN covRc ELSE BuildRc(covMaxCells, covRc)
    /\ covPc' = "returned"
    /\ UNCHANGED <<covMaxCells, region, ancVars, convVars, sampVars, queryVars, benchVars>>

NextCov == CoveringCall

SpecCov == InitCov /\ [][NextCov]_vars

\* C3: with maxCells = 1, the covering of a region that is not a cell is nil
\* when the external coverer's result is not exactly one cell, and is that
\* one cell otherwise.
C3_SingleCellOrNil ==
    (covPc = "returned" /\ covMaxCells = 1 /\ ~region.isCell) =>
        /\ Len(region.ext) # 1 => covering = NilSlice
        /\ Len(region.ext) = 1 =>
              (~covering.nil /\ covering.cells = << region.ext[1] >>)

\* a region the coverer needs two or more cells for, rejected
C3_Witness ==
    /\ covPc = "returned"
    /\ covMaxCells = 1
    /\ ~region.isCell
    /\ Len(region.ext) >= 2
    /\ covering.nil

----------------------------------------------------------------------------
(* SpecQuery: one query, by ReadS2 or by ReadSST, against an index that    *)
(* holds one posting.  Whether a posting is matched depends on that        *)
(* posting alone, so one posting at a time shows the matching of every     *)
(* index content.                                                          *)

\* the cells a posting is stored at: the sample cells, the first and last
\* leaf below each, and the leaves just outside each one's range
PostingCells ==
    SampleCells
    \cup { RangeMin(c) : c \in SampleCells }
    \cup { RangeMax(c) : c \in SampleCells }
    \cup ({ RangeMin(c) - 2 : c \in SampleCells } \cap AllCells)
    \cup ({ RangeMax(c) + 2 : c \in SampleCells } \cap AllCells)

QueryRegions == { r \in Regions : Len(r.ext) <= MaxCovLen }

InitQuery ==
    /\ posting \in [id : 1..MaxId, cell : PostingCells]
    /\ qOp \in Ops
    /\ covMaxCells \in 1..MaxCfgCells
    /\ covRc = NoRc
    /\ region \in QueryRegions
    /\ covering = NilSlice
    /\ covPc = "idle"
    /\ queryCoveringCounts = [k \in 1..QueryCoveringCountsLen |-> 0]
    /\ query = << >>
    /\ qRet = << >>
    /\ qPc = "call"
    /\ sstEntries = << SstEntry(IndexRow(posting.id, posting.cell)) >>
    /\ iter = "none"
    /\ scanned = << >>
    /\ roads = << >>
    /\ indexW = << IndexRow(posting.id, posting.cell) >>
    /\ tableW = << posting.id >>
    /\ convI = 1
    /\ convRet = "nil"
    /\ convPc = "idle"
    /\ loadSets = indexW
    /\ loadRet = "nil"
    /\ IdleAnc /\ IdleBench
    /\ IdleSamp

\* the rows of roads_s2_idx, and the entries of the sstable in key order
IndexRows == Range(indexW)

Returned(backend, res) ==
    /\ qRet' = [backend |-> backend, count |-> res.count,
                rowCount |-> res.rowCount, err |-> res.err, agg |-> res.agg]
    /\ query' = res.query
    /\ queryCoveringCounts' = res.counts
    /\ covering' = Covering(covMaxCells, region)
    /\ covRc' = IF region.isCell THEN covRc ELSE BuildRc(covMaxCells, covRc)
    /\ iter' = res.iter
    /\ scanned' = res.scanned
    /\ qPc' = "returned"
    /\ UNCHANGED <<posting, qOp, sstEntries, covMaxCells, region, covPc, ancVars, convVars, sampVars,
                   benchVars>>

ReadS2Call ==
    /\ qPc = "call"
    /\ \E dbErr \in BOOLEAN :
          Returned("s2", ReadS2(IndexRows, covMaxCells, region, qOp,
                                queryCoveringCounts, dbErr))

ReadSSTCall ==
    /\ qPc = "call"
    /\ \E closeErr \in BOOLEAN :
          Returned("sst", ReadSST(sstEntries, covMaxCells, region, qOp,
                                  queryCoveringCounts, closeErr))

NextQuery == ReadS2Call \/ ReadSSTCall

SpecQuery == InitQuery /\ [][NextQuery]_vars

----------------------------------------------------------------------------
(* Claims about the query translation *)

\* x is y or a descendant of y
IsWithin(x, y) == x = y \/ y \in StrictAncestors(x)

Answered(op) == qPc = "returned" /\ qOp = op /\ qRet.err = "nil"

\* C7: a contains query whose covering includes a cell Y matches every
\* posting stored at Y or at a descendant of Y, by the predicate of
\* containsQ and by the range scans of ReadSST.
C7_ContainsMatchesDescendants ==
    (Answered("contains")
       /\ \E y \in Range(covering.cells) : IsWithin(posting.cell, y))
    => qRet.count = 1

\* a posting three levels below the covering cell, found by the range scan
C7_Witness ==
    /\ Answered("contains")
    /\ qRet.backend = "sst"
    /\ \E y \in Range(covering.cells) :
          /\ y \in StrictAncestors(posting.cell)
          /\ Level(posting.cell) >= Level(y) + 3
    /\ qRet.count = 1
    /\ qRet.rowCount = 1

\* C8: every posting a contains query matches, by the predicate of
\* containsQ or by the range scans of ReadSST, is stored at a member of the
\* covering or at a descendant of a member.
C8_ContainsMatchesOnlyDescendants ==
    (Answered("contains") /\ qRet.count >= 1)
    => \E y \in Range(covering.cells) : IsWithin(posting.cell, y)

\* the parent of a covering cell, next to the cell's range, is not matched
C8_Witness ==
    /\ Answered("contains")
    /\ qRet.backend = "s2"
    /\ qRet.count = 0
    /\ \E y \in Range(covering.cells) : posting.cell \in StrictAncestors(y)
    /\ \A y \in Range(covering.cells) : ~IsWithin(posting.cell, y)

\* the members of a covering and their strict ancestors
MembersAndAncestors(cs) ==
    Range(cs) \cup UNION { StrictAncestors(cs[k]) : k \in DOMAIN cs }

\* C9: a containing query matches a posting if and only if its cell is a
\* member of the covering or a strict ancestor of a member; the IN list is
\* the tokens of Ancestors(C) and C.
C9_ContainingMatchesAncestors ==
    Answered("containing") =>
        /\ (qRet.count = 1) <=> (posting.cell \in MembersAndAncestors(covering.cells))
        /\ qRet.count \in {0, 1}
        /\ Len(query) = 1
        /\ query[1].kind = "in"
        /\ Range(query[1].tokens) =
              { ToToken(c) : c \in MembersAndAncestors(covering.cells) }

C9_Witness ==
    /\ Answered("containing")
    /\ qRet.count = 1
    /\ \E x \in Range(covering.cells) : posting.cell \in StrictAncestors(x)

\* the rows a WHERE clause selects
Hits(w) == { r \in IndexRows : RowMatches(r, w) }

\* C10: the postings matched by the intersects predicate are those matched
\* by the contains predicate or by the containing predicate for the same
\* covering, with only Ancestors(C) in the IN list of intersects.
C10_IntersectsIsUnion ==
    Answered("intersects") =>
        /\ Hits(query) = Hits(WhereClause("contains", covering.cells))
                           \cup Hits(WhereClause("containing", covering.cells))
        /\ qRet.count = Cardinality(Hits(query))
        /\ query[Len(query)].kind = "in"
        /\ Range(query[Len(query)].tokens) =
              { ToToken(a) : a \in UNION { StrictAncestors(covering.cells[k]) :
                                            k \in DOMAIN covering.cells } }

\* the posting is at a member of the covering: in the IN list of containing,
\* not in that of intersects, matched by the range
C10_Witness ==
    /\ Answered("intersects")
    /\ posting.cell \in Range(covering.cells)
    /\ ToToken(posting.cell) \notin Range(query[Len(query)].tokens)
    /\ qRet.count = 1

----------------------------------------------------------------------------
(* Spec: the benchmark loop of latencies (s2latencies, pglatencies) and    *)
(* sstlatencies, with the interrupt listener started by ctrlcCtx.          *)

Benches == {"s2latencies", "pglatencies", "sstlatencies"}

\* a loop that runs for one query more
latenciesMaxCount_PlusOne ==
    (queryMaxLevel - queryMinLevel + 1) * QueriesPerLevel + 1

latenciesMaxCount == (queryMaxLevel - queryMinLevel + 1) * QueriesPerLevel

\* make([]*hdrhistogram.Histogram, queryMaxLevel+1): per level, the number
\* of recorded values (TotalCount)
NewHistograms == [l \in 0..queryMaxLevel |-> 0]

\* h[level].RecordValue(v): the histogram counts a value inside its range
\* (up to histMaxLatency = 100 s for the latencies, up to 10000000 for the
\* counts); for a larger value it returns an error and counts nothing, and
\* the loop drops that error
RecordValue(h, l, inRange) ==
    IF inRange THEN [h EXCEPT ![l] = @ + 1] ELSE h

\* the index the benchmark queries: one posting at a leaf cell
BenchRows == Range(indexW)
BenchSst  == << SstEntry(IndexRow(1, Chain(0, MaxLevel))) >>

\* the region of a query at a level (queryShape = rectShape): the bounding
\* rectangle of the cell of that level around the sample's center, for which
\* the coverer finds that one cell, or that cell and its neighbour
BenchRegions(l) ==
    { [isCell |-> FALSE, id |-> 0, ext |-> << Chain(0, l) >>],
      [isCell |-> FALSE, id |-> 0,
       ext |-> << Chain(0, l), Child(Chain(0, l - 1), 2) >>] }

\* q.ReadPostGIS: the count is PostGIS's; no covering is computed
ReadPostGIS(counts, dbErr) ==
    [count |-> 0, rowCount |-> 0, err |-> IF dbErr THEN "error" ELSE "nil",
     counts |-> counts, query |-> << >>, iter |-> "none", scanned |-> << >>, agg |-> "none"]

\* the backend call of one loop iteration
BackendCall(r, ioErr) ==
    CASE bench = "s2latencies" ->
            ReadS2(BenchRows, covMaxCells, r, "contains", queryCoveringCounts, ioErr)
      [] bench = "pglatencies" ->
            ReadPostGIS(queryCoveringCounts, ioErr)
      [] bench = "sstlatencies" ->
            ReadSST(sstEntries, covMaxCells, r, "contains", queryCoveringCounts, ioErr)

\* if err := ctx.Err(); err != nil
loopCancelled_Never == FALSE
loopCancelled == ctxErr

\* err == errQuerySkipped
IsSkip_Never(err) == FALSE
IsSkip_AnyError(err) == err # "nil"
IsSkip(err) == err = "skipped"

\* the record the next call of qr.Next() returns: the first kept record
\* after the reader's position, or none at the end of the file
NextKept == { k \in keep : k > pos }
FirstKept == CHOOSE k \in NextKept : \A j \in NextKept : k <= j

\* the records a reader keeps, numbered in the order qr.Next() returns
\* them: the loop sees the kept records only (which records of the file
\* they are is the matter of SpecSample)
KeptStreams == { 1..n : n \in 0..StreamLen }

Init ==
    /\ bench \in Benches
    /\ covMaxCells \in 1..MaxCfgCells
    /\ covRc = NoRc
    /\ region = << >>
    /\ covering = NilSlice
    /\ covPc = "idle"
    /\ keep \in KeptStreams
    /\ pc = "open"
    /\ i = 0
    /\ level = -1
    /\ nanosByLevel = NewHistograms
    /\ countsByLevel = NewHistograms
    /\ rowsByLevel = NewHistograms
    /\ ctxErr = FALSE
    /\ signalled = FALSE
    /\ listener = "waiting"
    /\ pos = 0
    /\ issued = 0
    /\ numLoops = 0
    /\ ret = "none"
    /\ lastErr = "none"
    /\ atCancel = << >>
    /\ queryCoveringCounts = [k \in 1..QueryCoveringCountsLen |-> 0]
    /\ posting = << >>
    /\ qOp = "contains"
    /\ query = << >>
    /\ qRet = << >>
    /\ qPc = "idle"
    /\ sstEntries = IF bench = "sstlatencies" THEN BenchSst ELSE << >>
    /\ iter = "none"
    /\ scanned = << >>
    /\ roads = << >>
    /\ indexW = << IndexRow(1, Chain(0, MaxLevel)) >>
    /\ tableW = << 1 >>
    /\ convI = 1
    /\ convRet = "nil"
    /\ convPc = "idle"
    /\ loadSets = IF bench = "sstlatencies" THEN indexW ELSE << >>
    /\ loadRet = IF bench = "sstlatencies" THEN "nil" ELSE "none"
    /\ IdleAnc
    /\ IdleSamp

\* return r, with the deferred cancel()
Return(r) ==
    /\ pc' = "done"
    /\ ret' = r
    /\ ctxErr' = TRUE

\* sql.Open / vfs.Default.Open and sstable.NewReader
OpenBackend ==
    /\ pc = "open"
    /\ \E openErr \in BOOLEAN :
          IF openErr THEN Return("error")
          ELSE pc' = "start" /\ UNCHANGED <<ret, ctxErr>>
    /\ UNCHANGED <<bench, i, level, nanosByLevel, countsByLevel, rowsByLevel,
                   signalled, listener, keep, pos, issued, numLoops, lastErr,
                   atCancel, ancVars, convVars, sampVars, covVars, queryVars>>

\* the head of a pass: new histograms, a new query reader, level := -1, the
\* covering tally cleared, i := 0
StartPass ==
    /\ pc = "start"
    /\ \E openErr \in BOOLEAN :
          IF openErr
          THEN /\ Return("error")
               /\ UNCHANGED <<i, level, nanosByLevel, countsByLevel, rowsByLevel,
                              pos, issued, queryCoveringCounts>>
          ELSE /\ nanosByLevel' = NewHistograms
               /\ countsByLevel' = NewHistograms
               /\ rowsByLevel' = NewHistograms
               /\ pos' = 0
               /\ issued' = 0
               /\ level' = -1
               /\ i' = 0
               /\ queryCoveringCounts' = [k \in 1..QueryCoveringCountsLen |-> 0]
               /\ pc' = "check"
               /\ UNCHANGED <<ret, ctxErr>>
    /\ UNCHANGED <<bench, signalled, listener, keep, numLoops, lastErr, atCancel,
                   ancVars, convVars, sampVars, covVars, posting, qOp, query, qRet, qPc, sstEntries,
                   iter, scanned>>

\* for i < latenciesMaxCount { if ctx.Err() != nil { break } ...
LoopCheck ==
    /\ pc = "check"
    /\ pc' = IF i < latenciesMaxCount /\ ~loopCancelled THEN "next" ELSE "report"
    /\ UNCHANGED <<bench, i, level, nanosByLevel, countsByLevel, rowsByLevel,
                   ctxErr, signalled, listener, keep, pos, issued, numLoops, ret,
                   lastErr, atCancel, ancVars, convVars, sampVars, covVars, queryVars>>

\* the wrap one level too early: queryMinLevel is never queried
WrapLevel_Early(l) == IF l <= queryMinLevel THEN queryMaxLevel ELSE l

\* if level < queryMinLevel { level = queryMaxLevel }
WrapLevel(l) == IF l < queryMinLevel THEN queryMaxLevel ELSE l

\* q, ok := qr.Next(); if !ok { break }; if level < queryMinLevel
\* { level = queryMaxLevel }; the backend call is issued
QrNext ==
    /\ pc = "next"
    /\ IF NextKept = {}
       THEN /\ pos' = StreamLen
            /\ pc' = "report"
            /\ UNCHANGED <<level, issued>>
       ELSE /\ pos' = FirstKept
            /\ level' = WrapLevel(level)
            /\ issued' = issued + 1
            /\ pc' = "query"
    /\ UNCHANGED <<bench, i, nanosByLevel, countsByLevel, rowsByLevel, ctxErr,
                   signalled, listener, keep, numLoops, ret, lastErr, atCancel,
                   ancVars, convVars, sampVars, covVars, queryVars>>

\* the backend call returns; the rest of the iteration, with its level--
QueryReturn ==
    /\ pc = "query"
    /\ \E r \in BenchRegions(level), ioErr \in BOOLEAN, withinMaxLatency \in BOOLEAN :
          LET res == BackendCall(r, ioErr) IN
          /\ lastErr' = res.err
          /\ queryCoveringCounts' = res.counts
          /\ iter' = res.iter
          /\ scanned' = res.scanned
          /\ IF bench = "pglatencies"
             THEN UNCHANGED <<region, covering, covRc>>
             ELSE /\ region' = r
                  /\ covering' = Covering(covMaxCells, r)
                  /\ covRc' = BuildRc(covMaxCells, covRc)
          /\ IF res.err = "panic"
             THEN /\ Return("panic")
                  /\ UNCHANGED <<i, level, nanosByLevel, countsByLevel, rowsByLevel>>
             ELSE IF IsSkip(res.err)
             THEN /\ level' = level - 1
                  /\ pc' = "check"
                  /\ UNCHANGED <<i, nanosByLevel, countsByLevel, rowsByLevel,
                                 ret, ctxErr>>
             ELSE IF res.err # "nil"
             THEN /\ Return("error")
                  /\ UNCHANGED <<i, level, nanosByLevel, countsByLevel, rowsByLevel>>
             ELSE IF level \notin DOMAIN nanosByLevel
             THEN /\ Return("panic")
                  /\ i' = i + 1
                  /\ UNCHANGED <<level, nanosByLevel, countsByLevel, rowsByLevel>>
             ELSE /\ i' = i + 1
                  /\ nanosByLevel' = RecordValue(nanosByLevel, level, withinMaxLatency)
                  /\ countsByLevel' = RecordValue(countsByLevel, level, TRUE)
                  /\ rowsByLevel' = IF bench = "sstlatencies"
                                    THEN RecordValue(rowsByLevel, level, TRUE)
                                    ELSE rowsByLevel
                  /\ level' = level - 1
                  /\ pc' = "check"
                  /\ UNCHANGED <<ret, ctxErr>>
    /\ UNCHANGED <<bench, signalled, listener, keep, pos, issued, numLoops,
                   atCancel, ancVars, convVars, sampVars, covMaxCells, covPc, posting, qOp, query,
                   qRet, qPc, sstEntries>>

\* after the loop: the report is printed; if ctx.Err() != nil { return nil };
\* latencies: goto ForLoop; sstlatencies: numLoops++, goto ForLoop while
\* below the limit, else return nil
Report ==
    /\ pc = "report"
    /\ IF ctxErr
       THEN Return("nil") /\ UNCHANGED numLoops
       ELSE IF bench = "sstlatencies"
       THEN /\ numLoops' = numLoops + 1
            /\ IF numLoops + 1 < MaxLoops
               THEN pc' = "start" /\ UNCHANGED <<ret, ctxErr>>
               ELSE Return("nil")
       ELSE pc' = "start" /\ UNCHANGED <<ret, ctxErr, numLoops>>
    /\ UNCHANGED <<bench, i, level, nanosByLevel, countsByLevel, rowsByLevel,
                   signalled, listener, keep, pos, issued, lastErr, atCancel,
                   ancVars, convVars, sampVars, covVars, queryVars>>

\* an interrupt is delivered to signalChan
Interrupt ==
    /\ ~signalled
    /\ pc # "done"
    /\ signalled' = TRUE
    /\ UNCHANGED <<bench, pc, i, level, nanosByLevel, countsByLevel, rowsByLevel,
                   ctxErr, listener, keep, pos, issued, numLoops, ret, lastErr,
                   atCancel, ancVars, convVars, sampVars, covVars, queryVars>>

\* the listener: case <-signalChan: ... cancel()
ListenerCancel ==
    /\ listener = "waiting"
    /\ signalled
    /\ ctxErr' = TRUE
    /\ listener' = "exited"
    /\ atCancel' = IF ctxErr THEN atCancel ELSE << pc, i >>
    /\ UNCHANGED <<bench, pc, i, level, nanosByLevel, countsByLevel, rowsByLevel,
                   signalled, keep, pos, issued, numLoops, ret, lastErr,
                   ancVars, convVars, sampVars, covVars, queryVars>>

\* the listener: case <-ctx.Done():
ListenerDone ==
    /\ listener = "waiting"
    /\ ctxErr
    /\ listener' = "exited"
    /\ UNCHANGED <<bench, pc, i, level, nanosByLevel, countsByLevel, rowsByLevel,
                   ctxErr, signalled, keep, pos, issued, numLoops, ret, lastErr,
                   atCancel, ancVars, convVars, sampVars, covVars, queryVars>>

Next ==
    \/ OpenBackend
    \/ StartPass
    \/ LoopCheck
    \/ QrNext
    \/ QueryReturn
    \/ Report
    \/ Interrupt
    \/ ListenerCancel
    \/ ListenerDone

Spec == Init /\ [][Next]_vars

\* the steps of the benchmark's own goroutine other than the backend call:
\* the goroutine is scheduled
Main == OpenBackend \/ StartPass \/ LoopCheck \/ QrNext \/ Report

\* every backend call returns: the loop does not stay in a call for ever
QueryDone == []<>(pc # "query")

FairSpec == Spec /\ WF_vars(Main) /\ QueryDone

----------------------------------------------------------------------------
(* Claims about the benchmark loop *)

\* TotalCount() summed over the histograms of all levels
RECURSIVE TotalUpTo(_, _)
TotalUpTo(h, l) == IF l < 0 THEN 0 ELSE h[l] + TotalUpTo(h, l - 1)
Total(h) == TotalUpTo(h, queryMaxLevel)

\* the context was cancelled by an interrupt that arrived between the end
\* of an iteration and the loop's next cancellation check, after k = i
\* queries of the pass had been recorded
CancelledAtCheck == atCancel # << >> /\ atCancel[1] = "check"

\* C1: when the context is cancelled after k queries of the pass have been
\* recorded and before the loop's next cancellation check, the loop issues
\* no further query: it leaves at that check, the histograms hold k samples
\* in total from then on, and the function returns nil.
C1_CancelKeepsSamples ==
    CancelledAtCheck =>
        /\ pc \in {"check", "report", "done"}
        /\ i = atCancel[2]
        /\ Total(nanosByLevel) = atCancel[2]
        /\ Total(countsByLevel) = atCancel[2]
        /\ ret = IF pc = "done" THEN "nil" ELSE "none"

\* C2: when the covering of a query is nil the backend call returns
\* errQuerySkipped, and the loop neither advances i nor records in any
\* histogram nor returns: it goes on to the head of the loop.
C2_SkipLeavesCounters ==
    [][ (pc = "query" /\ pc' # "query" /\ bench # "pglatencies" /\ covering'.nil)
        => /\ lastErr' = "skipped"
           /\ i' = i
           /\ nanosByLevel' = nanosByLevel
           /\ countsByLevel' = countsByLevel
           /\ rowsByLevel' = rowsByLevel
           /\ ret' = "none"
           /\ pc' = "check" ]_vars

\* a query skipped after one that was recorded
C2_Witness ==
    /\ pc = "check"
    /\ lastErr = "skipped"
    /\ covering.nil
    /\ i >= 1
    /\ issued > i
    /\ Total(nanosByLevel) = i

----------------------------------------------------------------------------
(* SpecSst: one ReadSST against an sstable of several entries, some of     *)
(* them with a value cut short.                                            *)

\* the cell the queries cover and its neighbour
SstCell    == Chain(0, MaxLevel - 1)
SstSibling == Child(Chain(0, MaxLevel - 2), 2)

\* the cells whose tokens are keys: the cell, the first and last leaf below
\* it, and the leaves just outside its range
SstKeyCells ==
    { SstCell, RangeMin(SstCell), RangeMax(SstCell),
      RangeMin(SstCell) - 2, RangeMax(SstCell) + 2 } \cap AllCells

SstIds == (1..MaxObjId) \cup {LargeId}

\* a value cut inside the number
Truncated(v) == SubSeq(v, 1, Len(v) - 1)

SstValues ==
    { PutUvarint(id) : id \in SstIds } \cup { Truncated(PutUvarint(LargeId)) }

\* sort.Sort(sortIndex(index)) on cellid: the keys in the order of
\* strings.Compare
RECURSIVE SortKeys(_)
SortKeys(K) ==
    IF K = {} THEN << >>
    ELSE LET m == CHOOSE x \in K : \A y \in K : Compare(x, y) <= 0
         IN  << m >> \o SortKeys(K \ {m})

\* the tables: keys strictly increasing, as the sstable writer requires
SstTables ==
    UNION { { [k \in DOMAIN ks |-> [key |-> ks[k], value |-> v[k]]] :
                v \in [DOMAIN ks -> SstValues] } :
            ks \in { SortKeys({ ToToken(c) : c \in C }) :
                       C \in { D \in SUBSET SstKeyCells :
                                 Cardinality(D) <= MaxSstLen } } }

SstRegions ==
    { [isCell |-> TRUE, id |-> SstCell, ext |-> << >>],
      [isCell |-> FALSE, id |-> 0, ext |-> << SstCell >>],
      [isCell |-> FALSE, id |-> 0, ext |-> << SstCell, SstSibling >>],
      [isCell |-> FALSE, id |-> 0, ext |-> << SstSibling, SstCell >>] }

InitSst ==
    /\ posting = << >>
    /\ qOp \in Ops
    /\ covMaxCells \in 1..MaxCfgCells
    /\ covRc = NoRc
    /\ region \in SstRegions
    /\ covering = NilSlice
    /\ covPc = "idle"
    /\ queryCoveringCounts = [k \in 1..QueryCoveringCountsLen |-> 0]
    /\ query = << >>
    /\ qRet = << >>
    /\ qPc = "call"
    /\ sstEntries \in SstTables
    /\ iter = "none"
    /\ scanned = << >>
    /\ IdleAnc /\ IdleBench /\ IdleConv
    /\ IdleSamp

NextSst == ReadSSTCall

SpecSst == InitSst /\ [][NextSst]_vars

\* the entries of the table whose key lies in the range of a covering cell
InRange(k, c) ==
    /\ Compare(ToToken(RangeMin(c)), sstEntries[k].key) <= 0
    /\ Compare(sstEntries[k].key, ToToken(RangeMax(c))) <= 0

Malformed(k) == Uvarint(sstEntries[k].value).n <= 0

SstAnswered == qPc = "returned" /\ qRet.backend = "sst" /\ qRet.err = "nil"

\* C11: ReadSST returns the number of distinct object ids among the entries
\* it scanned and the number of entries it scanned; an object with three
\* entries inside the covering's ranges gives 1 and 3.
C11_DistinctAndRowCounts ==
    SstAnswered =>
        LET hits == { jk \in (DOMAIN covering.cells) \X (DOMAIN sstEntries) :
                        InRange(jk[2], covering.cells[jk[1]]) }
        IN  /\ qRet.count =
                  Cardinality({ Uvarint(sstEntries[jk[2]].value).value : jk \in hits })
            /\ qRet.rowCount = Cardinality(hits)
            /\ ((\A k \in DOMAIN sstEntries :
                     sstEntries[k].value = PutUvarint(LargeId))
                /\ Cardinality(hits) = 3)
               => (qRet.count = 1 /\ qRet.rowCount = 3)

\* one object under three cells inside the covering's range
C11_Witness ==
    /\ SstAnswered
    /\ Len(sstEntries) = 3
    /\ \A k \in DOMAIN sstEntries : sstEntries[k].value = PutUvarint(LargeId)
    /\ \A k \in DOMAIN sstEntries : InRange(k, SstCell)
    /\ qRet.count = 1
    /\ qRet.rowCount = 3

\* the entries with a key in the range of cell c, in key order
RECURSIVE EntriesInRange(_, _)
EntriesInRange(k, c) ==
    IF k > Len(sstEntries) THEN << >>
    ELSE (IF InRange(k, c) THEN << k >> ELSE << >>) \o EntriesInRange(k + 1, c)

RECURSIVE EntriesInRanges(_, _)
EntriesInRanges(cov, j) ==
    IF j > Len(cov) THEN << >>
    ELSE EntriesInRange(1, cov[j]) \o EntriesInRanges(cov, j + 1)

\* C12: the scan of a range [low, high] (seek to low, advance while
\* key <= high) visits exactly the entries with low <= key <= high, both
\* bounds included, in key order, and none above high; ReadSST does one such
\* scan per covering cell.
C12_RangeScanExact ==
    SstAnswered => scanned = EntriesInRanges(covering.cells, 1)

\* entries at both ends of the range and one above: the scan visits exactly
\* the first two
C12_Witness ==
    /\ SstAnswered
    /\ covering.cells = << SstCell >>
    /\ Len(sstEntries) = 3
    /\ sstEntries[1].key = ToToken(RangeMin(SstCell))
    /\ sstEntries[2].key = ToToken(RangeMax(SstCell))
    /\ Compare(sstEntries[3].key, ToToken(RangeMax(SstCell))) > 0
    /\ sstEntries[1].value = PutUvarint(1)
    /\ sstEntries[2].value = PutUvarint(2)
    /\ scanned = << 1, 2 >>
    /\ qRet.count = 2

----------------------------------------------------------------------------
(* SpecIdx: convert writes the index of a road file, the index is loaded   *)
(* into roads_s2_idx, and one ReadS2 queries it; cfg is the same global     *)
(* configuration in convert and in the query.                              *)

\* roadReader.Next: records whose geometry is a MULTILINESTRING are skipped
\* and counted; the others are numbered rr.i = 0, 1, ...
RECURSIVE RoadReaderNext_SameIdx(_, _)
RoadReaderNext_SameIdx(rs, rr) ==
    IF rr.pos > Len(rs) THEN [ok |-> FALSE, rr |-> rr, road |-> << >>]
    ELSE IF rs[rr.pos].multi
    THEN RoadReaderNext_SameIdx(rs, [rr EXCEPT !.pos = @ + 1, !.skipped = @ + 1])
    ELSE [ok   |-> TRUE,
          rr   |-> [rr EXCEPT !.pos = @ + 1],
          road |-> [idx |-> rr.i, ext |-> rs[rr.pos].ext]]

RECURSIVE RoadReaderNext(_, _)
RoadReaderNext(rs, rr) ==
    IF rr.pos > Len(rs) THEN [ok |-> FALSE, rr |-> rr, road |-> << >>]
    ELSE IF rs[rr.pos].multi
    THEN RoadReaderNext(rs, [rr EXCEPT !.pos = @ + 1, !.skipped = @ + 1])
    ELSE [ok   |-> TRUE,
          rr   |-> [rr EXCEPT !.pos = @ + 1, !.i = @ + 1],
          road |-> [idx |-> rr.i, ext |-> rs[rr.pos].ext]]

\* s2.PolylineFromLatLngs(road.lls), with the covering the coverer finds
Polyline(road) == [isCell |-> FALSE, id |-> 0, ext |-> road.ext]

\* for _, c := range covering { Fprintf(indexW, "%d,%s\n", road.idx, ...) }
IndexLines(idx, cov) == [ k \in DOMAIN cov |-> IndexRow(idx, cov[k]) ]

\* for i := 0; i < convertRows; { ... }
RECURSIVE ConvertLoop_CountSkipped(_, _, _)
ConvertLoop_CountSkipped(rs, maxCells, st) ==
    IF st.i >= convertRows THEN st
    ELSE LET nx == RoadReaderNext(rs, st.rr) IN
         IF ~nx.ok THEN [st EXCEPT !.rr = nx.rr]
         ELSE LET cov == Covering(maxCells, Polyline(nx.road)) IN
              IF cov.nil
              THEN ConvertLoop_CountSkipped(rs, maxCells,
                       [st EXCEPT !.rr = nx.rr, !.i = @ + 1])
              ELSE ConvertLoop_CountSkipped(rs, maxCells,
                       [rr     |-> nx.rr,
                        i      |-> st.i + 1,
                        indexW |-> st.indexW \o IndexLines(nx.road.idx, cov.cells),
                        tableW |-> Append(st.tableW, nx.road.idx)])

RECURSIVE ConvertLoop(_, _, _)
ConvertLoop(rs, maxCells, st) ==
    IF st.i >= convertRows THEN st
    ELSE LET nx == RoadReaderNext(rs, st.rr) IN
         IF ~nx.ok THEN [st EXCEPT !.rr = nx.rr]
         ELSE LET cov == Covering(maxCells, Polyline(nx.road)) IN
              IF cov.nil
              THEN ConvertLoop(rs, maxCells, [st EXCEPT !.rr = nx.rr])
              ELSE ConvertLoop(rs, maxCells,
                       [rr     |-> nx.rr,
                        i      |-> st.i + 1,
                        indexW |-> st.indexW \o IndexLines(nx.road.idx, cov.cells),
                        tableW |-> Append(st.tableW, nx.road.idx)])

\* the cells of the roads' coverings
IdxCells == { Chain(0, MaxLevel), Child(SstCell, 2), SstSibling }

\* the records of the road file: a MULTILINESTRING, or a LINESTRING with
\* the covering the coverer finds for it (cells in increasing order)
RoadRecords ==
    { [multi |-> TRUE, ext |-> << >>] }
    \cup { [multi |-> FALSE, ext |-> e] :
             e \in { x \in SeqsUpTo(IdxCells, 2) :
                       /\ Len(x) >= 1
                       /\ \A j, k \in DOMAIN x : j < k => x[j] < x[k] } }

IdxRegions ==
    { [isCell |-> TRUE, id |-> SstCell, ext |-> << >>],
      [isCell |-> FALSE, id |-> 0, ext |-> << SstCell >>],
      [isCell |-> FALSE, id |-> 0, ext |-> << Chain(0, MaxLevel), SstSibling >>],
      [isCell |-> FALSE, id |-> 0, ext |-> << Chain(0, MaxLevel) >>] }

InitIdx ==
    /\ roads \in SeqsUpTo(RoadRecords, MaxRoads)
    /\ indexW = << >>
    /\ tableW = << >>
    /\ convI = 0
    /\ convRet = "none"
    /\ convPc = "call"
    /\ loadSets = << >>
    /\ loadRet = "none"
    /\ posting = << >>
    /\ qOp \in Ops
    /\ covMaxCells \in 1..MaxCfgCells
    /\ covRc = NoRc
    /\ region \in IdxRegions
    /\ covering = NilSlice
    /\ covPc = "idle"
    /\ queryCoveringCounts = [k \in 1..QueryCoveringCountsLen |-> 0]
    /\ query = << >>
    /\ qRet = << >>
    /\ qPc = "idle"
    /\ sstEntries = << >>
    /\ iter = "none"
    /\ scanned = << >>
    /\ IdleAnc /\ IdleBench
    /\ IdleSamp

\* convert(in, table, index, cfg)
Convert ==
    /\ convPc = "call"
    /\ \E openErr \in BOOLEAN, syncErr \in BOOLEAN :
          IF openErr
          THEN /\ convRet' = "open failed"
               /\ UNCHANGED <<indexW, tableW, convI, covRc>>
          ELSE LET st == ConvertLoop(roads, covMaxCells,
                             [rr     |-> [pos |-> 1, i |-> 0, skipped |-> 0],
                              i      |-> 0,
                              indexW |-> << >>,
                              tableW |-> << >>])
               IN  /\ indexW' = st.indexW
                   /\ tableW' = st.tableW
                   /\ convI' = st.i
                   /\ covRc' = IF st.rr.i > 0 THEN BuildRc(covMaxCells, covRc)
                               ELSE covRc
                   /\ convRet' = IF syncErr THEN "sync failed" ELSE "nil"
    /\ convPc' = "done"
    /\ UNCHANGED <<roads, loadSets, loadRet, covMaxCells, region, covering,
                   covPc, ancVars, queryVars, benchVars, sampVars>>

\* crdbLoad / pgLoad: the index file becomes the table roads_s2_idx, whose
\* primary key (s2, id) admits no line twice
CrdbLoad ==
    /\ convPc = "done"
    /\ convRet = "nil"
    /\ qPc = "idle"
    /\ NoDuplicates(indexW)
    /\ qPc' = "call"
    /\ UNCHANGED <<posting, qOp, queryCoveringCounts, query, qRet, sstEntries,
                   iter, scanned, ancVars, covVars, benchVars, convVars, sampVars>>

NextIdx == Convert \/ CrdbLoad \/ ReadS2Call

SpecIdx == InitIdx /\ [][NextIdx]_vars

----------------------------------------------------------------------------
(* Claims about convert and the counting of ReadS2 *)

S2Answered == qPc = "returned" /\ qRet.backend = "s2" /\ qRet.err = "nil"

\* the number of lines of the index that carry an object id
RowsOf(id) == Cardinality({ k \in DOMAIN indexW : indexW[k].id = id })

OneCellPerObject ==
    \A k \in DOMAIN roads :
        ~roads[k].multi =>
            LET cov == Covering(covMaxCells, Polyline(roads[k])) IN
            cov.nil \/ Len(cov.cells) = 1

\* C14: when every object is indexed under exactly one cell and the query's
\* covering has exactly one cell, the number of matching rows equals the
\* number of distinct matching ids, for each operation; the count(id) taken
\* at maxCells = 1 is the value count(distinct(id)) would give.
C14_RawEqualsDistinct ==
    (S2Answered /\ OneCellPerObject /\ Len(covering.cells) = 1) =>
        /\ Cardinality(Hits(query)) = Cardinality({ r.id : r \in Hits(query) })
        /\ covMaxCells = 1
           => /\ qRet.agg = "count(id)"
              /\ qRet.count = SelectCount(TRUE, query, IndexRows)

\* two objects matched by an intersects query under a single-cell budget
C14_Witness ==
    /\ S2Answered
    /\ covMaxCells = 1
    /\ qOp = "intersects"
    /\ qRet.agg = "count(id)"
    /\ Cardinality(IndexRows) = 2
    /\ qRet.count = 2

\* the number the reader gives record k, and whether convert writes it
IdxOf(k) == Cardinality({ j \in 1..(k - 1) : ~roads[j].multi })
NonNil(k) ==
    ~roads[k].multi /\ ~Covering(covMaxCells, Polyline(roads[k])).nil
Written(k) ==
    NonNil(k) /\ Cardinality({ j \in 1..k : NonNil(j) }) <= convertRows

\* C20: convert writes, for each road with a non-nil covering of K cells,
\* K index lines (id, token of the cell) and one table line, and nothing for
\* a road whose covering is nil; only roads with a non-nil covering count
\* toward convertRows.
C20_ConvertWritesPerCell ==
    (convPc = "done" /\ convRet \in {"nil", "sync failed"}) =>
        /\ \A k \in DOMAIN roads :
              LET cov == Covering(covMaxCells, Polyline(roads[k]))
                  mine == { j \in DOMAIN indexW : indexW[j].id = IdxOf(k) }
                  rows == { j \in DOMAIN tableW : tableW[j] = IdxOf(k) }
              IN  /\ Written(k) =>
                        /\ Cardinality(mine) = Len(cov.cells)
                        /\ { indexW[j].s2 : j \in mine } =
                               { ToToken(c) : c \in Range(cov.cells) }
                        /\ Cardinality(rows) = 1
                  /\ (~roads[k].multi /\ ~Written(k)) => (mine = {} /\ rows = {})
        /\ \A j \in DOMAIN indexW :
              \E k \in DOMAIN roads : Written(k) /\ IdxOf(k) = indexW[j].id
        /\ convI = Cardinality({ k \in DOMAIN roads : Written(k) })

\* a road with a nil covering is passed over and the limit is still reached
C20_Witness ==
    /\ convPc = "done"
    /\ convRet = "nil"
    /\ Len(roads) = 3
    /\ ~roads[1].multi
    /\ ~NonNil(1)
    /\ Written(2)
    /\ Written(3)
    /\ convI = convertRows
    /\ Len(tableW) = 2
    /\ Len(indexW) = 2

----------------------------------------------------------------------------
(* Claims about the failure paths of ReadSST *)

\* ReadSST has returned or panicked after starting its scan
SstScanned ==
    /\ qPc = "returned"
    /\ qRet.backend = "sst"
    /\ ~covering.nil
    /\ qOp = "contains"

\* C15: when the value of an entry in the range of a covering cell does not
\* decode as an unsigned varint, ReadSST panics and gives no count; the
\* entry is neither passed over nor counted.
C15_MalformedValueIsFatal ==
    (SstScanned
       /\ \E k \in DOMAIN sstEntries, c \in Range(covering.cells) :
             InRange(k, c) /\ Malformed(k))
    => (qRet.err = "panic" /\ qRet.count = 0 /\ qRet.rowCount = 0)

\* a cut value after a well-formed entry of the same range
C15_Witness ==
    /\ SstScanned
    /\ qRet.err = "panic"
    /\ Len(scanned) = 2
    /\ ~Malformed(scanned[1])
    /\ Malformed(scanned[2])
    /\ Len(sstEntries) = 3

\* C16: the iterator opened by ReadSST is closed when ReadSST is left, on
\* every exit path, the end of the scan as well as a decoding failure
\* inside it.
C16_IteratorClosed ==
    (qPc = "returned" /\ qRet.backend = "sst") => iter # "open"

----------------------------------------------------------------------------
(* Claims about the end of a benchmark run *)

\* C18: an invocation that is never cancelled terminates: it reaches the
\* state in which it has returned.
C18_Terminates == ([]~signalled) => <>(pc = "done")

\* C17: when the backend call fails with an error that is not the skip
\* signal, the run returns that error at once: no histogram entry is
\* recorded for the query, and once the run has returned nothing more is
\* issued or recorded.
C17_ErrorEndsRun ==
    [][ /\ (pc = "query" /\ pc' # "query" /\ lastErr' = "error")
           => /\ pc' = "done"
              /\ ret' = "error"
              /\ i' = i
              /\ nanosByLevel' = nanosByLevel
              /\ countsByLevel' = countsByLevel
              /\ rowsByLevel' = rowsByLevel
        /\ pc = "done"
           => /\ pc' = "done"
              /\ ret' = ret
              /\ issued' = issued
              /\ i' = i
              /\ nanosByLevel' = nanosByLevel ]_vars

\* a query fails after another of the same pass was recorded
C17_Witness ==
    /\ pc = "done"
    /\ ret = "error"
    /\ lastErr = "error"
    /\ i >= 1
    /\ issued = i + 1
    /\ Total(nanosByLevel) = i
    /\ NextKept # {}

\* C19: the queries of one walk over the levels, from queryMaxLevel down to
\* queryMinLevel, are all about the same sample: a query below
\* queryMaxLevel is issued for the sample of the query before it.
C19_LevelWalkSharesCenter ==
    [][ (pc = "next" /\ pc' = "query" /\ level >= queryMinLevel)
        => pos' = pos ]_vars

----------------------------------------------------------------------------
(* Claims about the size of a covering *)

\* C21 as stated: a covering returned by s2IndexConfig.Covering that is not
\* nil has no cell twice and at most maxCells cells.
C21_CoveringWithinMaxCells ==
    (covPc = "returned" /\ ~covering.nil) =>
        /\ NoDuplicates(covering.cells)
        /\ Len(covering.cells) <= covMaxCells

\* C21: a covering returned by s2IndexConfig.Covering that is not nil has
\* no cell twice; with maxCells = 1 it is exactly one cell; otherwise it is
\* the coverer's whole result, which has more than maxCells cells only with
\* each cell on a face of its own.
C21_CoveringIsCoverersResult ==
    (covPc = "returned" /\ ~covering.nil) =>
        /\ NoDuplicates(covering.cells)
        /\ covMaxCells = 1 => Len(covering.cells) = 1
        /\ ~region.isCell => covering.cells = region.ext
        /\ Len(covering.cells) > covMaxCells =>
              \A j, k \in DOMAIN covering.cells :
                  j # k => Face(covering.cells[j]) # Face(covering.cells[k])

\* a covering of three cells, one per face, returned with maxCells = 2
C21_Witness ==
    /\ covPc = "returned"
    /\ covMaxCells = 2
    /\ ~covering.nil
    /\ Len(covering.cells) = 3

-----------------------------------------------------------------------------
(* SpecLoad: sstLoad turns an index file into an sstable, and ReadSST      *)
(* scans the table it built.                                               *)

\* most lines of the index file given to sstLoad
MaxLoadLen == 3

\* fmt.Fprintf(indexW, "%d,...", road.idx): the decimal text of an id, and
\* strconv.Atoi of such a text
RECURSIVE Itoa(_)
Itoa(n) == IF n < 10 THEN << 48 + n >>
           ELSE Itoa(n \div 10) \o << 48 + (n % 10) >>

RECURSIVE Atoi(_)
Atoi(t) == IF t = << >> THEN 0
           ELSE 10 * Atoi(SubSeq(t, 1, Len(t) - 1)) + (t[Len(t)] - 48)

\* r.Read(): index = append(index, s2Id{cellid: parts[1], id: parts[0]})
ReadIndex(lines) ==
    [ k \in DOMAIN lines |-> [cellid |-> lines[k].s2, id |-> Itoa(lines[k].id)] ]

\* sortIndex.Less: both fields are compared as strings
Less(a, b) ==
    LET cmp == Compare(a.cellid, b.cellid) IN
    IF cmp # 0 THEN cmp < 0 ELSE Compare(a.id, b.id) < 0

\* sort.Sort(sortIndex(index)): elements of which neither is Less than the
\* other are equal in both fields, so every sorting algorithm gives the
\* same slice; an insertion sort computes it
RECURSIVE InsertSorted(_, _)
InsertSorted(x, s) ==
    IF s = << >> THEN << x >>
    ELSE IF Less(x, Head(s)) THEN << x >> \o s
    ELSE << Head(s) >> \o InsertSorted(x, Tail(s))

RECURSIVE SortIndex(_)
SortIndex(index) ==
    IF index = << >> THEN << >>
    ELSE InsertSorted(index[Len(index)],
                      SortIndex(SubSeq(index, 1, Len(index) - 1)))

\* sstable.Writer.Set: the keys must be added in strictly increasing order.
\* A key below the last one is refused by every build of the library; a
\* key equal to the last one is refused (strict) or added, depending on the
\* build.  A refusal makes the writer keep the error: later calls do
\* nothing and Close returns it.
WriterSet(w, key, value, strict) ==
    IF w.err # "nil" THEN w
    ELSE IF w.entries # << >>
            /\ LET x == Compare(w.entries[Len(w.entries)].key, key)
               IN  x > 0 \/ (x = 0 /\ strict)
         THEN [w EXCEPT !.err = "keys must be added in order"]
         ELSE [w EXCEPT !.entries = Append(@, [key |-> key, value |-> value])]

\* for i := range index { id := Atoi(index[i].id);
\*     n := binary.PutUvarint(buf, uint64(id)); w.Set(cellid, buf[:n]) }
\* The error returned by Set is dropped.
RECURSIVE WriteLoop(_, _, _, _)
WriteLoop(index, k, w, strict) ==
    IF k > Len(index) THEN w
    ELSE WriteLoop(index, k + 1,
             WriterSet(w, index[k].cellid, PutUvarint(Atoi(index[k].id)), strict),
             strict)

\* sstLoad(indexInput, indexOutput): the error returned, the postings
\* passed to the writer and the table in the output file
sstLoad(lines, openErr, createErr, ioErr, strict) ==
    LET index == SortIndex(ReadIndex(lines))
        w     == WriteLoop(index, 1, [entries |-> << >>, err |-> "nil"], strict)
    IN
    IF openErr THEN [ret |-> "opening", sets |-> << >>, table |-> << >>]
    ELSE IF createErr THEN [ret |-> "creating", sets |-> << >>, table |-> << >>]
    ELSE IF w.err # "nil"
         THEN [ret |-> "closing sst writer: " \o w.err, sets |-> index,
               table |-> << >>]
    ELSE IF ioErr
         THEN [ret |-> "closing sst writer: io", sets |-> index, table |-> << >>]
    ELSE [ret |-> "nil", sets |-> index, table |-> w.entries]

\* the cells and ids of the postings of the index file
LoadCells == { SstCell, SstSibling }
LoadIds == { 2, 9, 10 }
LoadInputs ==
    SeqsUpTo({ IndexRow(id, c) : id \in LoadIds, c \in LoadCells }, MaxLoadLen)

\* the whole key range of face 0, or part of it
LoadRegions ==
    { [isCell |-> TRUE, id |-> FaceCell(0), ext |-> << >>],
      [isCell |-> TRUE, id |-> SstCell, ext |-> << >>] }

InitLoad ==
    /\ roads = << >>
    /\ indexW \in LoadInputs
    /\ tableW = << >>
    /\ convI = 0
    /\ convRet = "nil"
    /\ convPc = "idle"
    /\ loadSets = << >>
    /\ loadRet = "none"
    /\ posting = << >>
    /\ qOp = "contains"
    /\ covMaxCells \in 1..MaxCfgCells
    /\ covRc = NoRc
    /\ region \in LoadRegions
    /\ covering = NilSlice
    /\ covPc = "idle"
    /\ queryCoveringCounts = [k \in 1..QueryCoveringCountsLen |-> 0]
    /\ query = << >>
    /\ qRet = << >>
    /\ qPc = "idle"
    /\ sstEntries = << >>
    /\ iter = "none"
    /\ scanned = << >>
    /\ IdleAnc /\ IdleBench
    /\ IdleSamp

\* the command sstload; a table that was built can then be queried
SstLoad ==
    /\ loadRet = "none"
    /\ qPc = "idle"
    /\ \E openErr \in BOOLEAN, createErr \in BOOLEAN, ioErr \in BOOLEAN,
          strict \in BOOLEAN :
          LET res == sstLoad(indexW, openErr, createErr, ioErr, strict) IN
          /\ loadRet' = res.ret
          /\ loadSets' = res.sets
          /\ sstEntries' = res.table
          /\ qPc' = IF res.ret = "nil" THEN "call" ELSE qPc
    /\ UNCHANGED <<roads, indexW, tableW, convI, convRet, convPc, posting, qOp,
                   queryCoveringCounts, query, qRet, iter, scanned, ancVars,
                   covVars, benchVars, sampVars>>

NextLoad == SstLoad \/ ReadSSTCall

SpecLoad == InitLoad /\ [][NextLoad]_vars

\* iter.First() ... iter.Next() over the whole table: each key with the
\* value decoded as an unsigned varint
ScanAll(t) ==
    [ k \in DOMAIN t |-> [s2 |-> t[k].key, id |-> Uvarint(t[k].value).value] ]

\* the number of times x occurs in a sequence
Occurrences(s, x) == Cardinality({ k \in DOMAIN s : s[k] = x })

\* sstLoad went past opening its files and writing out the blocks
LoadRan == loadRet \notin {"none", "opening", "creating", "closing sst writer: io"}

LoadWrote == loadRet \notin {"none", "opening", "creating"}

\* C26: sstLoad passes the postings to the writer sorted by cellToken, and
\* postings with equal cellToken in ascending order of the object id.
C26_SortedByTokenThenId ==
    LoadWrote =>
        \A k \in 1..(Len(loadSets) - 1) :
            /\ Compare(loadSets[k].cellid, loadSets[k + 1].cellid) <= 0
            /\ loadSets[k].cellid = loadSets[k + 1].cellid
                  => Atoi(loadSets[k].id) <= Atoi(loadSets[k + 1].id)

-----------------------------------------------------------------------------
(* SpecSample: the passes of a benchmark make one query reader after the   *)
(* other over the same road file (main.go: qr, err := makeQueryReader(...) *)
(* at the head of each pass) and read it to the end.                       *)

\* records of the sampled road file, and query readers made in a run
MaxSampleLen == 3
MaxPasses == 2

\* rng.Intn(100) gives a number in 0..99; these are the numbers that fall on
\* each side of the selectivities below
DrawValues == { 0, 49, 99 }
Selectivities == { 1, 50, 100 }

\* the center of a query is the first point of the road: road.lls[0]
SampleRecords ==
    { [multi |-> TRUE, ext |-> << >>, center |-> 0] }
    \cup { [multi |-> FALSE, ext |-> << Chain(0, MaxLevel) >>, center |-> c] :
             c \in 1..2 }

\* makeQueryReader: a new road reader at the head of the file and a new
\* generator, rand.New(rand.NewSource(0)), of which nothing is drawn yet.
\* used is the number of draws made by the readers before this one.
makeQueryReader_SharedRng(used) ==
    [rr |-> [pos |-> 1, i |-> 0, skipped |-> 0], rng |-> used]

makeQueryReader(used) ==
    [rr |-> [pos |-> 1, i |-> 0, skipped |-> 0], rng |-> 0]

\* the k-th rng.Intn(100) of a generator made from the source.  A reader
\* draws one number for each record it reads, so the first Len(src) numbers
\* of the source are all it uses; past them the model starts over.
Intn(src, k) == src[((k - 1) % Len(src)) + 1]

\* qr.Next(): for { road, ok := qr.rr.Next(); if !ok { return query{}, false }
\* if !(qr.rng.Intn(100) < qr.selectivity) { continue }; return q, ok }
RECURSIVE QueryReaderNext(_, _, _, _)
QueryReaderNext(rs, src, sel, r) ==
    LET nx == RoadReaderNext(rs, r.rr) IN
    IF ~nx.ok THEN [ok |-> FALSE, qr |-> [r EXCEPT !.rr = nx.rr], q |-> << >>]
    ELSE LET drawnNo == Intn(src, r.rng + 1)
             r2  == [rr |-> nx.rr, rng |-> r.rng + 1]
         IN  IF ~(drawnNo < sel)
             THEN QueryReaderNext(rs, src, sel, r2)
             ELSE [ok |-> TRUE, qr |-> r2,
                   q  |-> [idx |-> nx.road.idx,
                           center |-> rs[nx.rr.pos - 1].center]]

InitSample ==
    /\ roads \in SeqsUpTo(SampleRecords, MaxSampleLen)
    /\ selectivity \in Selectivities
    /\ source0 \in [1..MaxSampleLen -> DrawValues]
    /\ qr = << >>
    /\ kept = [p \in 1..MaxPasses |-> << >>]
    /\ pass = 0
    /\ drawn = 0
    /\ indexW = << >>
    /\ tableW = << >>
    /\ convI = 0
    /\ convRet = "none"
    /\ convPc = "idle"
    /\ loadSets = << >>
    /\ loadRet = "none"
    /\ IdleAnc /\ IdleCov /\ IdleQuery /\ IdleBench

\* the head of a pass
MakeQueryReader ==
    /\ pass < MaxPasses
    /\ qr = << >>
    /\ qr' = makeQueryReader(drawn)
    /\ pass' = pass + 1
    /\ UNCHANGED <<selectivity, source0, kept, drawn, ancVars, covVars,
                   queryVars, benchVars, convVars>>

\* one q, ok := qr.Next() of the pass; the pass ends at !ok
SampleNext ==
    /\ qr # << >>
    /\ LET nx == QueryReaderNext(roads, source0, selectivity, qr) IN
       /\ drawn' = drawn + (nx.qr.rng - qr.rng)
       /\ IF nx.ok
          THEN /\ kept' = [kept EXCEPT ![pass] = Append(@, nx.q)]
               /\ qr' = nx.qr
          ELSE /\ qr' = << >>
               /\ UNCHANGED kept
    /\ UNCHANGED <<selectivity, source0, pass, ancVars, covVars, queryVars,
                   benchVars, convVars>>

NextSample == MakeQueryReader \/ SampleNext

SpecSample == InitSample /\ [][NextSample]_vars

\* a pass has read the file to its end
PassDone(p) == pass > p \/ (pass = p /\ qr = << >>)

\* C23: query readers made over the same road file with the same
\* selectivity keep the same records and return the same centers in the
\* same order: what a later pass has returned so far is what the first pass
\* returned at that point, and complete passes returned the same sequence.
C23_SameSamplesEveryPass ==
    \A p \in 2..MaxPasses :
        /\ \A k \in DOMAIN kept[p] :
              k \in DOMAIN kept[1] /\ kept[p][k] = kept[1][k]
        /\ (pass >= p /\ PassDone(p)) => kept[p] = kept[1]

\* two complete passes that each kept the first and the third record and
\* dropped the second
C23_Witness ==
    /\ pass = 2
    /\ PassDone(2)
    /\ Len(roads) = 3
    /\ \A k \in DOMAIN roads : ~roads[k].multi
    /\ Len(kept[1]) = 2
    /\ kept[1][1].idx = 0
    /\ kept[1][2].idx = 2
    /\ kept[2] = kept[1]

-----------------------------------------------------------------------------
(* Claims about cancellation during a backend call *)

\* the context was cancelled while a backend call was in flight, after
\* k = atCancel[2] queries of the pass had been recorded
CancelledInFlight == atCancel # << >> /\ atCancel[1] = "query"

\* C24: a cancellation that arrives while a backend call is in flight does
\* not abort the call: the call returns, its result is recorded (counted in
\* i and in the cardinality histogram) or skipped as without the
\* cancellation, the loop leaves at its next check without
\* issuing another query, and the run returns nil only from the step that
\* prints the report.
C24_CancelTakesEffectAtCheck ==
    /\ [](CancelledInFlight =>
            /\ pc \in {"query", "check", "report", "done"}
            /\ (pc # "query" /\ lastErr = "nil") =>
                  /\ i = atCancel[2] + 1
                  /\ Total(countsByLevel) = atCancel[2] + 1
            /\ (pc # "query" /\ lastErr = "skipped") =>
                  /\ i = atCancel[2]
                  /\ Total(countsByLevel) = atCancel[2]
            /\ (pc = "done" /\ lastErr \in {"nil", "skipped"}) => ret = "nil")
    /\ [][ (CancelledInFlight /\ pc # "done" /\ pc' = "done"
              /\ lastErr' \in {"nil", "skipped"})
           => (pc = "report" /\ ret' = "nil"
               /\ nanosByLevel' = nanosByLevel /\ countsByLevel' = countsByLevel) ]_vars

\* cancelled during the second query issued in a pass, the first having
\* been skipped; the query was then recorded, with samples and budget left
C24_Witness ==
    /\ CancelledInFlight
    /\ atCancel[2] = 0
    /\ issued = 2
    /\ pc = "done"
    /\ ret = "nil"
    /\ lastErr = "nil"
    /\ i = 1
    /\ i < latenciesMaxCount
    /\ NextKept # {}
    /\ Total(nanosByLevel) = 1

-----------------------------------------------------------------------------
(* Claims about the listener goroutine of ctrlcCtx *)

\* the listener goroutine is scheduled as well: a select with a ready case
\* is taken
Listener == ListenerCancel \/ ListenerDone

FairListenerSpec == FairSpec /\ WF_vars(Listener)

\* C25: in every interleaving of the query loop and the listener started by
\* ctrlcCtx, the cancellation signal, once set, is never cleared, and the
\* listener eventually terminates.
C25_SignalKeptListenerExits ==
    /\ [][ctxErr => ctxErr']_vars
    /\ <>(listener = "exited")

-----------------------------------------------------------------------------
(* Claims about the query budget and the level walk of a pass *)

\* 100 * (queryMaxLevel - queryMinLevel + 1), with the scaled number of
\* queries per level
Budget == QueriesPerLevel * (queryMaxLevel - queryMinLevel + 1)

\* C27: within one pass the number of recorded queries, over all levels,
\* never exceeds the budget; once that many are recorded the loop issues no
\* further query; a skipped query leaves the count as it was.
C27_BudgetBoundsRecorded ==
    /\ [](/\ Total(nanosByLevel) <= i
          /\ Total(countsByLevel) = i
          /\ i <= Budget
          /\ pc \in {"next", "query"} => i < Budget)
    /\ [][ (pc = "query" /\ pc' # "query" /\ lastErr' = "skipped")
           => (i' = i /\ nanosByLevel' = nanosByLevel
               /\ countsByLevel' = countsByLevel) ]_vars

\* the budget reached after a skipped query, with samples left in the file:
\* the loop has left for the report and the run goes on
C27_Witness ==
    /\ pc = "report"
    /\ ~ctxErr
    /\ i = Budget
    /\ Total(nanosByLevel) = Budget
    /\ issued > Budget
    /\ NextKept # {}

\* C28: whenever a query is in flight or recorded, the level is one of
\* queryMinLevel .. queryMaxLevel and so an index of the histogram arrays;
\* every recorded query has added one sample to the latency histogram and
\* one to the cardinality histogram of its level, so the two histograms of
\* every level hold the same number of samples, i in total.
C28_LevelIndexesBothHistograms ==
    /\ pc = "query" =>
          /\ level \in queryMinLevel..queryMaxLevel
          /\ level \in DOMAIN nanosByLevel
          /\ level \in DOMAIN countsByLevel
    /\ DOMAIN nanosByLevel = DOMAIN countsByLevel
    /\ \A l \in DOMAIN nanosByLevel : nanosByLevel[l] = countsByLevel[l]
    /\ Total(nanosByLevel) = i

\* the number of levels the loop walks before it wraps
LevelSpan == queryMaxLevel - queryMinLevel + 1

\* C29: counted from the loop's start at level := -1, the n-th query issued
\* (n = 0, 1, ..., skipped queries counted) is at level
\* queryMaxLevel - (n mod (queryMaxLevel - queryMinLevel + 1)); the level
\* steps down by one after every iteration that goes on, a skipped one
\* included, and every query takes a sample later in the stream than the
\* one before, so a skipped sample is not queried again at its level.
C29_LevelOfNthQuery ==
    /\ [](pc = "query" =>
            /\ issued >= 1
            /\ level = queryMaxLevel - ((issued - 1) % LevelSpan))
    /\ [][(pc = "query" /\ pc' = "check") => level' = level - 1]_vars
    /\ [][(issued' = issued + 1) => (pc' = "query" /\ pos' > pos)]_vars

\* the third query of a pass is in flight at queryMaxLevel again, after one
\* of the two before it was skipped
C29_Witness ==
    /\ pc = "query"
    /\ issued = LevelSpan + 1
    /\ level = queryMaxLevel
    /\ i = LevelSpan - 1
    /\ LevelSpan >= 2

----------------------------------------------------------------------------
(* SpecTally: one call of q.GetCovering, for coverings of every length up  *)
(* to one above the tally's size.                                          *)

\* var cfg = &s2IndexConfig{... maxCells: 16}
cfgMaxCells == 16

\* the values of cfg.maxCells: 1 (data.go), 16 (main.go), and the two
\* around the tally's size
TallyCfgs ==
    {1, cfgMaxCells, QueryCoveringCountsLen, QueryCoveringCountsLen + 1}

\* the first k leaf cells of face 0: a covering of k cells
LeafCells(k) == [j \in 1..k |-> 2 * j - 1]

\* regions with a coverer's result of 1 .. QueryCoveringCountsLen + 1 cells,
\* the regions at a cube corner, and the cells
TallyRegions ==
    { [isCell |-> FALSE, id |-> 0, ext |-> LeafCells(k)] :
        k \in 1..(QueryCoveringCountsLen + 1) }
    \cup CornerRegions
    \cup { r \in Regions : r.isCell }

InitTally ==
    /\ covMaxCells \in TallyCfgs
    /\ covRc = NoRc
    /\ region \in { r \in TallyRegions :
                      r.isCell \/ CovererCanReturn(covMaxCells, r.ext) }
    /\ covering = NilSlice
    /\ covPc = "call"
    /\ posting = << >>
    /\ qOp = "none"
    /\ queryCoveringCounts = [k \in 1..QueryCoveringCountsLen |-> 0]
    /\ query = << >>
    /\ qRet = << >>
    /\ qPc = "idle"
    /\ sstEntries = << >>
    /\ iter = "none"
    /\ scanned = << >>
    /\ IdleAnc /\ IdleBench /\ IdleConv /\ IdleSamp

\* q.GetCovering(level): covPc records how the call ends
GetCoveringCall ==
    /\ covPc = "call"
    /\ LET res == GetCovering(covMaxCells, region, queryCoveringCounts) IN
          /\ covering' = res.covering
          /\ queryCoveringCounts' = res.counts
          /\ covPc' = IF res.panic = "none" THEN "returned" ELSE res.panic
    /\ covRc' = IF region.isCell THEN covRc ELSE BuildRc(covMaxCells, covRc)
    /\ UNCHANGED <<covMaxCells, region, posting, qOp, query, qRet, qPc,
                   sstEntries, iter, scanned, ancVars, convVars, sampVars,
                   benchVars>>

NextTally == GetCoveringCall

SpecTally == InitTally /\ [][NextTally]_vars

\* the length GetCovering tallies: 0 for a nil covering
TalliedLen == Len(Covering(covMaxCells, region).cells)

\* C30: for every covering whose length passes GetCovering's size guard (a
\* nil covering is tallied as length 0), the call increments the slot of
\* that length inside the 20-slot queryCoveringCounts and returns; no call
\* ends with an index out of range.
C30_TallyIndexInRange ==
    /\ covPc # "index out of range"
    /\ (covPc # "call" /\ ~(TalliedLen > QueryCoveringCountsLen)) =>
          /\ covPc = "returned"
          /\ TalliedLen + 1 \in DOMAIN queryCoveringCounts
          /\ queryCoveringCounts[TalliedLen + 1] = 1

====
